---------------------------- MODULE Spec2Model ----------------------------
(***************************************************************************)
(* A model of sample_size_determination.py: the two functions power and    *)
(* experiment_size of a two-proportion sizing utility, step by step, with  *)
(* the calls a client can make of them.                                    *)
(*                                                                         *)
(* Numbers.  The program computes in double precision.  The model carries  *)
(* a double as a record [k, v]:                                            *)
(*   k = "fin"  a finite value, v in millionths (fixed point, One = 1.0)   *)
(*   k = "cnt"  a finite whole number held in a double (what np.ceil       *)
(*              returns), v the number itself                              *)
(*   k = "int"  a Python int argument, v the number itself                 *)
(*   k = "inf"  an infinity, v = 1 or -1                                   *)
(*   k = "nan"  not-a-number                                               *)
(* Products, quotients and square roots of finite values are computed to   *)
(* the millionth, truncated; infinities and NaN follow IEEE 754, which is  *)
(* what numpy does (with a warning, never an exception).                   *)
(***************************************************************************)
EXTENDS Integers, Sequences, FiniteSets, TLC

(***************************************************************************)
(* Bounds of the model.                                                    *)
(***************************************************************************)
\* sample sizes 1..MaxN are tried one by one
MaxN == 16
\* the large sample size the n = 1 boundary case is compared with
NBig == 10000
\* the tolerance, in millionths, granted to ">= 1 - beta"
Tol == 200

\* the fixed-point unit: 1.0
One == 10^6
\* the limb of the multi-limb products and quotients
Limb == 10^3

(***************************************************************************)
(* Doubles.                                                                *)
(***************************************************************************)
Fin(v) == [k |-> "fin", v |-> v]
Cnt(v) == [k |-> "cnt", v |-> v]
PyInt(v) == [k |-> "int", v |-> v]
PInf == [k |-> "inf", v |-> 1]
NInf == [k |-> "inf", v |-> -1]
NaN == [k |-> "nan", v |-> 0]
Unset == [k |-> "unset", v |-> 0]
ZeroDivisionError == [k |-> "ZeroDivisionError", v |-> 0]

Inf(s) == IF s < 0 THEN NInf ELSE PInf
Abs(i) == IF i < 0 THEN -i ELSE i
Sgn(i) == IF i < 0 THEN -1 ELSE IF i > 0 THEN 1 ELSE 0
IsNumber(a) == a.k \in {"fin", "cnt", "int"}

\* floor(a * b / One) for a, b >= 0, by limbs so that no product leaves 32 bits
FxMulNN(a, b) ==
    LET a1 == a \div Limb
        a0 == a % Limb
        b1 == b \div Limb
        b0 == b % Limb
        mid == a1 * b0 + a0 * b1
    IN  a1 * b1 + (mid \div Limb) + (((mid % Limb) * Limb + a0 * b0) \div One)

\* floor(a * One / b) for a >= 0, b > 0, by long division
FxDivNN(a, b) ==
    LET q1 == a \div b
        r1 == a % b
        q2 == (r1 * Limb) \div b
        r2 == (r1 * Limb) % b
        q3 == (r2 * Limb) \div b
    IN  q1 * One + q2 * Limb + q3

\* a * b
FMul(a, b) ==
    CASE a.k = "nan" \/ b.k = "nan" -> NaN
      [] a.k = "inf" /\ b.k = "inf" -> Inf(a.v * b.v)
      [] a.k = "inf" -> IF b.v = 0 THEN NaN ELSE Inf(a.v * Sgn(b.v))
      [] b.k = "inf" -> IF a.v = 0 THEN NaN ELSE Inf(b.v * Sgn(a.v))
      [] OTHER -> Fin(Sgn(a.v) * Sgn(b.v) * FxMulNN(Abs(a.v), Abs(b.v)))

\* a - b
FSub(a, b) ==
    CASE a.k = "nan" \/ b.k = "nan" -> NaN
      [] a.k = "inf" /\ b.k = "inf" -> IF a.v = b.v THEN NaN ELSE a
      [] a.k = "inf" -> a
      [] b.k = "inf" -> Inf(-b.v)
      [] OTHER -> Fin(a.v - b.v)

\* a + b
FAdd(a, b) ==
    CASE b.k = "nan" -> NaN
      [] b.k = "inf" -> FSub(a, Inf(-b.v))
      [] OTHER -> FSub(a, Fin(-b.v))

\* a / b; a zero divisor is the positive zero and gives an infinity or NaN
FDiv(a, b) ==
    CASE a.k = "nan" \/ b.k = "nan" -> NaN
      [] a.k = "inf" /\ b.k = "inf" -> NaN
      [] a.k = "inf" -> Inf(a.v * (IF b.v < 0 THEN -1 ELSE 1))
      [] b.k = "inf" -> Fin(0)
      [] b.v = 0 -> IF a.v = 0 THEN NaN ELSE Inf(a.v)
      [] OTHER -> Fin(Sgn(a.v) * Sgn(b.v) * FxDivNN(Abs(a.v), Abs(b.v)))

(***************************************************************************)
(* np.sqrt.  The square root of the rational v / n (v in millionths), in   *)
(* millionths, truncated: the schoolbook method, two decimal digits of     *)
(* the radicand for each digit of the root.                                *)
(***************************************************************************)
RECURSIVE SqrtDigits(_, _, _)
SqrtDigits(root, rem, pairs) ==
    IF pairs = << >> THEN root
    ELSE LET cur == rem * 100 + Head(pairs)
             d == CHOOSE e \in 0..9 :
                     /\ (20 * root + e) * e <= cur
                     /\ (e = 9 \/ (20 * root + e + 1) * (e + 1) > cur)
         IN  SqrtDigits(10 * root + d, cur - (20 * root + d) * d, Tail(pairs))

SqrtQ(v, n) ==
    LET whole == v \div n
        r0 == v % n
        f1 == (r0 * 100) \div n
        r1 == (r0 * 100) % n
        f2 == (r1 * 100) \div n
        r2 == (r1 * 100) % n
        f3 == (r2 * 100) \div n
    IN  SqrtDigits(0, 0, << whole \div 10000, (whole \div 100) % 100, whole % 100,
                            f1, f2, f3 >>)

(***************************************************************************)
(* scipy.stats.norm.  The standard normal distribution function is         *)
(* tabulated at 0, 0.02, .. 5.00 (in millionths) and interpolated; the     *)
(* quantile function is tabulated at the probabilities the calls use.      *)
(***************************************************************************)
NdtrStep == 20000
NdtrTable ==
  <<
       500000, 507978, 515953, 523922, 531881, 539828, 547758, 555670, 563559, 571424,
       579260, 587064, 594835, 602568, 610261, 617911, 625516, 633072, 640576, 648027,
       655422, 662757, 670031, 677242, 684386, 691462, 698468, 705401, 712260, 719043,
       725747, 732371, 738914, 745373, 751748, 758036, 764238, 770350, 776373, 782305,
       788145, 793892, 799546, 805105, 810570, 815940, 821214, 826391, 831472, 836457,
       841345, 846136, 850830, 855428, 859929, 864334, 868643, 872857, 876976, 881000,
       884930, 888768, 892512, 896165, 899727, 903200, 906582, 909877, 913085, 916207,
       919243, 922196, 925066, 927855, 930563, 933193, 935745, 938220, 940620, 942947,
       945201, 947384, 949497, 951543, 953521, 955435, 957284, 959070, 960796, 962462,
       964070, 965620, 967116, 968557, 969946, 971283, 972571, 973810, 975002, 976148,
       977250, 978308, 979325, 980301, 981237, 982136, 982997, 983823, 984614, 985371,
       986097, 986791, 987455, 988089, 988696, 989276, 989830, 990358, 990863, 991344,
       991802, 992240, 992656, 993053, 993431, 993790, 994132, 994457, 994766, 995060,
       995339, 995604, 995855, 996093, 996319, 996533, 996736, 996928, 997110, 997282,
       997445, 997599, 997744, 997882, 998012, 998134, 998250, 998359, 998462, 998559,
       998650, 998736, 998817, 998893, 998965, 999032, 999096, 999155, 999211, 999264,
       999313, 999359, 999402, 999443, 999481, 999517, 999550, 999581, 999610, 999638,
       999663, 999687, 999709, 999730, 999749, 999767, 999784, 999800, 999815, 999828,
       999841, 999853, 999864, 999874, 999883, 999892, 999900, 999908, 999915, 999922,
       999928, 999933, 999938, 999943, 999948, 999952, 999956, 999959, 999963, 999966,
       999968, 999971, 999973, 999975, 999977, 999979, 999981, 999983, 999984, 999985,
       999987, 999988, 999989, 999990, 999991, 999991, 999992, 999993, 999993, 999994,
       999995, 999995, 999996, 999996, 999996, 999997, 999997, 999997, 999997, 999998,
       999998, 999998, 999998, 999998, 999999, 999999, 999999, 999999, 999999, 999999,
       999999, 999999, 999999, 999999, 999999, 1000000, 1000000, 1000000, 1000000, 1000000,
       1000000 >>

\* beyond this |x| the distribution function is below 2^-54 (or within
\* 2^-54 of 1): 1 - beta is then exactly 1.0 (or exactly 0.0)
XSat == 8292362
\* beyond this |x| the distribution function itself is exactly 0 or 1
XMax == 40 * One

\* the distribution function at x >= 0, 0 <= x < XSat
NdtrUpper(x) ==
    LET i == x \div NdtrStep
        t == IF i + 1 >= Len(NdtrTable) THEN One
             ELSE NdtrTable[i + 1]
                    + ((NdtrTable[i + 2] - NdtrTable[i + 1]) * (x % NdtrStep)) \div NdtrStep
    IN  IF t >= One THEN One - 1 ELSE t

\* ndtr: the standard normal distribution function, in millionths
Ndtr(x) ==
    CASE x >= XSat -> One
      [] x <= -XSat -> 0
      [] x >= 0 -> NdtrUpper(x)
      [] OTHER -> One - NdtrUpper(-x)

\* ndtri: the standard normal quantile, for 0 < q < One
Ndtri(q) ==
    CASE q = 10000 -> -2326348
      [] q = 50000 -> -1644854
      [] q = 100000 -> -1281552
      [] q = 200000 -> -841621
      [] q = 500000 -> 0
      [] q = 800000 -> 841621
      [] q = 900000 -> 1281552
      [] q = 950000 -> 1644854
      [] q = 990000 -> 2326348

\* a frozen distribution is usable when its scale is positive (or +inf)
ScaleOk(scale) ==
    \/ scale.k = "fin" /\ scale.v > 0
    \/ scale.k = "inf" /\ scale.v > 0

\* stats.norm(loc, scale).ppf(q), q a finite value in millionths
NormPpf(loc, scale, q) ==
    CASE ~ScaleOk(scale) \/ loc.k = "nan" -> NaN
      [] q < 0 \/ q > One -> NaN
      [] q = 0 -> FAdd(FMul(NInf, scale), loc)
      [] q = One -> FAdd(FMul(PInf, scale), loc)
      [] OTHER -> FAdd(FMul(Fin(Ndtri(q)), scale), loc)

\* (x - loc) / scale, carried as +-XMax beyond +-XMax
Standardize(x, loc, scale) ==
    LET d == FSub(x, loc)
    IN  IF d.k = "fin" /\ scale.k = "fin" /\ scale.v > 0
           /\ Abs(d.v) \div scale.v >= XMax \div One
        THEN Fin(Sgn(d.v) * XMax)
        ELSE FDiv(d, scale)

\* stats.norm(loc, scale).cdf(x)
NormCdf(loc, scale, x) ==
    LET y == Standardize(x, loc, scale)
    IN  CASE ~ScaleOk(scale) \/ loc.k = "nan" -> NaN
          [] y.k = "nan" -> NaN
          [] y.k = "inf" -> IF y.v > 0 THEN Fin(One) ELSE Fin(0)
          [] OTHER -> Fin(Ndtr(y.v))

(***************************************************************************)
(* power, line by line (lines 46-57 and 82).  The arguments p_null, p_alt  *)
(* and alpha are finite values in millionths; n is a record: a Python int  *)
(* when a client passes one, a double when it is experiment_size's result. *)
(***************************************************************************)
\* p * (1 - p)
Bernoulli(p) == Sgn(p) * Sgn(One - p) * FxMulNN(Abs(p), Abs(One - p))

\* np.sqrt((1/n) * v) for a variance v > 0 in millionths
SqrtOverN(v, n) ==
    CASE n.k = "nan" -> NaN
      [] n.k = "inf" -> Fin(0)
      [] n.v > 0 -> Fin(SqrtQ(v, n.v))
      [] n.v < 0 -> NaN
      [] OTHER -> PInf

\* line 46: 1/n raises for the Python int 0, before anything is assigned
DivisionRaises(n) == n.k = "int" /\ n.v = 0

\* line 46
SeNull(p0, n) == SqrtOverN(2 * Bernoulli(p0), n)

\* lines 47 and 53
PCrit(se0, a) == NormPpf(Fin(0), se0, One - a)

\* line 55
SeAlt(p0, p1, n) == SqrtOverN(Bernoulli(p0) + Bernoulli(p1), n)

\* lines 56 and 57 with the alternative centred at p_null - p_alt
BetaSwapped(p0, p1, se1, crit) == NormCdf(Fin(p0 - p1), se1, crit)

\* lines 56 and 57
Beta(p0, p1, se1, crit) == NormCdf(Fin(p1 - p0), se1, crit)

\* line 82 returning beta - 1
MinusOne(b) == FSub(b, Fin(One))

\* line 82
OneMinus(b) == FSub(Fin(One), b)

\* what power(p0, p1, n, a, plot = False) returns or raises
PowerValue(p0, p1, n, a) ==
    IF DivisionRaises(n) THEN ZeroDivisionError
    ELSE OneMinus(Beta(p0, p1, SeAlt(p0, p1, n), PCrit(SeNull(p0, n), a)))

(***************************************************************************)
(* experiment_size, line by line (lines 113-120).                          *)
(***************************************************************************)
\* stats.norm.ppf(q): the standard normal, loc = 0 and scale = 1
StdPpf(q) == NormPpf(Fin(0), Fin(One), q)

\* lines 115 and 116
SdNull(p0) == Fin(SqrtQ(2 * Bernoulli(p0), 1))
SdAlt(p0, p1) == Fin(SqrtQ(Bernoulli(p0) + Bernoulli(p1), 1))

\* np.ceil(t ** 2): with |t| = A + B / One, t^2 = A^2 + (2AB + B^2 / One) / One
CeilSquare(t) ==
    CASE t.k = "nan" -> NaN
      [] t.k = "inf" -> PInf
      [] OTHER ->
           LET A == Abs(t.v) \div One
               B == Abs(t.v) % One
               frac == 2 * A * B + FxMulNN(B, B)
               exact == frac % One = 0 /\ B % Limb = 0
           IN  Cnt(A * A + (frac \div One) + (IF exact THEN 0 ELSE 1))

\* lines 119 and 120
SizeFrom(zn, za, sdn, sda, diff) ==
    CeilSquare(FDiv(FSub(FMul(zn, sdn), FMul(za, sda)), diff))

(***************************************************************************)
(* The arguments the calls are made with, in millionths.  PGrid holds the  *)
(* repository's own example (0.10 against 0.12), a mid value and the two   *)
(* extremes 0.001 and 0.999; p_null and p_alt are drawn from it in any     *)
(* order.  AlphaGrid and BetaGrid hold error rates inside (0, 1) and       *)
(* values on and beyond its ends.  No alpha and beta of the grids add up   *)
(* to 1 except 0.5 and 0.5: there 1 - alpha and beta are the same double   *)
(* and both z-scores are exactly 0, whereas for other such pairs the       *)
(* doubles 1 - alpha and beta differ in the last bit, which fixed point    *)
(* cannot tell apart.                                                      *)
(***************************************************************************)
PGrid == {1000, 100000, 120000, 500000, 999000}
AlphaGrid == {0, 50000, 500000, 950000, 1000000, 1500000}
BetaGrid == {0, 100000, 200000, 500000, 900000, 1000000}
NGrid == {-1, 0} \cup (1..MaxN) \cup {NBig}

VARIABLES
    pc,          \* the line the running call is at, or where it ended
    p_null, p_alt, n, alpha, plot,      \* power's parameters
    es_beta,                            \* experiment_size's parameter beta
    se_null, p_crit, se_alt, beta,      \* power's locals, lines 46-57
    low_bound, high_bound,              \* power's locals in the plot branch
    z_null, z_alt, sd_null, sd_alt, p_diff,   \* experiment_size's locals
    ret,         \* what the call returned or raised
    n_star       \* the size experiment_size returned, kept by the client

args == << p_null, p_alt, n, alpha, plot, es_beta >>
power_locals == << se_null, p_crit, se_alt, beta >>
plot_locals == << low_bound, high_bound >>
es_locals == << z_null, z_alt, sd_null, sd_alt, p_diff >>
vars == << pc, args, power_locals, plot_locals, es_locals, ret, n_star >>

Init ==
    /\ pc = "idle"
    /\ p_null = 0 /\ p_alt = 0 /\ n = Unset /\ alpha = 0 /\ plot = FALSE
    /\ es_beta = 0
    /\ se_null = Unset /\ p_crit = Unset /\ se_alt = Unset /\ beta = Unset
    /\ low_bound = Unset /\ high_bound = Unset
    /\ z_null = Unset /\ z_alt = Unset /\ sd_null = Unset /\ sd_alt = Unset
    /\ p_diff = Unset
    /\ ret = Unset
    /\ n_star = Unset

(***************************************************************************)
(* power(p_null, p_alt, n, alpha, plot)                                    *)
(***************************************************************************)
\* a client calls power; nothing is checked on entry (line 25)
call_power ==
    /\ pc = "idle"
    /\ \E p0 \in PGrid, p1 \in PGrid, k \in NGrid, a \in AlphaGrid, pl \in BOOLEAN :
          /\ p_null' = p0 /\ p_alt' = p1 /\ n' = PyInt(k) /\ alpha' = a
          /\ plot' = pl
    /\ pc' = "power_46"
    /\ UNCHANGED << es_beta, power_locals, plot_locals, es_locals, ret, n_star >>

\* lines 46-47
power_se_null ==
    /\ pc = "power_46"
    /\ IF DivisionRaises(n)
       THEN /\ ret' = ZeroDivisionError
            /\ pc' = "power_raised"
            /\ UNCHANGED se_null
       ELSE /\ se_null' = SeNull(p_null, n)
            /\ pc' = "power_53"
            /\ UNCHANGED ret
    /\ UNCHANGED << args, p_crit, se_alt, beta, plot_locals, es_locals, n_star >>

\* line 53
power_p_crit ==
    /\ pc = "power_53"
    /\ p_crit' = PCrit(se_null, alpha)
    /\ pc' = "power_55"
    /\ UNCHANGED << args, se_null, se_alt, beta, plot_locals, es_locals, ret, n_star >>

\* lines 55-56
power_se_alt ==
    /\ pc = "power_55"
    /\ se_alt' = SeAlt(p_null, p_alt, n)
    /\ pc' = "power_57"
    /\ UNCHANGED << args, se_null, p_crit, beta, plot_locals, es_locals, ret, n_star >>

\* line 57
power_beta ==
    /\ pc = "power_57"
    /\ beta' = Beta(p_null, p_alt, se_alt, p_crit)
    /\ pc' = "power_59"
    /\ UNCHANGED << args, se_null, p_crit, se_alt, plot_locals, es_locals, ret, n_star >>

\* lines 59-79 with the plot branch rebinding beta to the alternative's
\* distribution function at the left end of the plotted range
power_plot_rebinds_beta ==
    /\ pc = "power_59"
    /\ IF plot
       THEN /\ low_bound' = NormPpf(Fin(0), se_null, 10000)
            /\ high_bound' = NormPpf(Fin(p_alt - p_null), se_alt, 990000)
            /\ beta' = NormCdf(Fin(p_alt - p_null), se_alt, low_bound')
       ELSE UNCHANGED << plot_locals, beta >>
    /\ pc' = "power_82"
    /\ UNCHANGED << args, se_null, p_crit, se_alt, es_locals, ret, n_star >>

\* lines 59-79: the plot reads the two distributions and p_crit, and assigns
\* only its own locals; what it draws is not part of the state
power_plot ==
    /\ pc = "power_59"
    /\ IF plot
       THEN /\ low_bound' = NormPpf(Fin(0), se_null, 10000)
            /\ high_bound' = NormPpf(Fin(p_alt - p_null), se_alt, 990000)
       ELSE UNCHANGED plot_locals
    /\ pc' = "power_82"
    /\ UNCHANGED << args, power_locals, es_locals, ret, n_star >>

\* line 82
power_return ==
    /\ pc = "power_82"
    /\ ret' = OneMinus(beta)
    /\ pc' = "power_done"
    /\ UNCHANGED << args, power_locals, plot_locals, es_locals, n_star >>

(***************************************************************************)
(* experiment_size(p_null, p_alt, alpha, beta)                             *)
(***************************************************************************)
\* a client calls experiment_size; nothing is checked on entry (line 97)
call_experiment_size ==
    /\ pc = "idle"
    /\ \E p0 \in PGrid, p1 \in PGrid, a \in AlphaGrid, b \in BetaGrid :
          /\ p_null' = p0 /\ p_alt' = p1 /\ alpha' = a /\ es_beta' = b
    /\ pc' = "es_113"
    /\ UNCHANGED << n, plot, power_locals, plot_locals, es_locals, ret, n_star >>

\* lines 113-114
es_z_scores ==
    /\ pc = "es_113"
    /\ z_null' = StdPpf(One - alpha)
    /\ z_alt' = StdPpf(es_beta)
    /\ pc' = "es_115"
    /\ UNCHANGED << args, power_locals, plot_locals, sd_null, sd_alt, p_diff, ret, n_star >>

\* lines 115-116
es_sds ==
    /\ pc = "es_115"
    /\ sd_null' = SdNull(p_null)
    /\ sd_alt' = SdAlt(p_null, p_alt)
    /\ pc' = "es_118"
    /\ UNCHANGED << args, power_locals, plot_locals, z_null, z_alt, p_diff, ret, n_star >>

\* line 118
es_p_diff ==
    /\ pc = "es_118"
    /\ p_diff' = Fin(p_alt - p_null)
    /\ pc' = "es_119"
    /\ UNCHANGED << args, power_locals, plot_locals, z_null, z_alt, sd_null, sd_alt, ret, n_star >>

\* lines 119-120; the client keeps the result as n_star
es_return ==
    /\ pc = "es_119"
    /\ ret' = SizeFrom(z_null, z_alt, sd_null, sd_alt, p_diff)
    /\ n_star' = ret'
    /\ pc' = "es_done"
    /\ UNCHANGED << args, power_locals, plot_locals, es_locals >>

(***************************************************************************)
(* The client feeds a sample size back into power with the p_null, p_alt   *)
(* and alpha it sized for: the size experiment_size returned (a double),   *)
(* or a size 1..MaxN of its own to compare with.                           *)
(***************************************************************************)
feed_power ==
    /\ pc = "es_done"
    /\ \E pl \in BOOLEAN, m \in {n_star} \cup {PyInt(k) : k \in 1..MaxN} :
          /\ n' = m
          /\ plot' = pl
    /\ pc' = "power_46"
    /\ UNCHANGED << p_null, p_alt, alpha, es_beta, power_locals, plot_locals,
                    es_locals, ret, n_star >>

Next ==
    \/ call_power
    \/ power_se_null
    \/ power_p_crit
    \/ power_se_alt
    \/ power_beta
    \/ power_plot
    \/ power_return
    \/ call_experiment_size
    \/ es_z_scores
    \/ es_sds
    \/ es_p_diff
    \/ es_return
    \/ feed_power

Spec == Init /\ [][Next]_vars

(***************************************************************************)
(* The claims.                                                             *)
(***************************************************************************)
ValidProportions == 0 < p_null /\ p_null < p_alt /\ p_alt < One
ValidAlpha == 0 < alpha /\ alpha < One
ValidBeta == 0 < es_beta /\ es_beta < One
ValidSize == IsNumber(n) /\ n.v >= 1
PowerEnded == pc \in {"power_done", "power_raised"}
\* the running power call was fed from experiment_size's result
Fed == n_star # Unset
TrialSizes == (1..MaxN) \cup {NBig}
PowerAt(m) == PowerValue(p_null, p_alt, PyInt(m), alpha)

\* C1: when power is fed the size n_star that experiment_size returned for
\* valid p_null < p_alt, alpha and beta, it returns a power of at least
\* 1 - beta, up to the tolerance Tol.
C1_Consistency ==
    (PowerEnded /\ Fed /\ n = n_star /\ ValidProportions /\ ValidAlpha /\ ValidBeta)
        => (pc = "power_done" /\ ret.k = "fin" /\ ret.v >= One - es_beta - Tol)

\* C2: experiment_size never returns when p_alt <= p_null: the call ends in
\* an error, and no number, infinity or NaN comes back.
C2_RejectsNoEffect ==
    (pc = "es_done" /\ ValidAlpha /\ ValidBeta) => p_alt > p_null

\* C3: power never returns when the sample size n is below 1: the call ends
\* in an error (any error is taken for the rejection).
C3_RejectsBadSize ==
    (pc = "power_done" /\ ValidProportions /\ ValidAlpha) => n.v >= 1

\* C4: power never returns when p_null >= p_alt: the call ends in an error
\* instead of a power computed from the inverted or zero effect.
C4_RejectsInvertedEffect ==
    (pc = "power_done" /\ ValidAlpha /\ ValidSize) => p_null < p_alt

\* C5: power never returns when alpha is outside (0, 1), and experiment_size
\* never returns when alpha or beta is outside (0, 1).
C5_RejectsBadErrorRates ==
    /\ (pc = "power_done" /\ ValidProportions /\ ValidSize) => ValidAlpha
    /\ (pc = "es_done" /\ ValidProportions) => (ValidAlpha /\ ValidBeta)

C7_PowerInUnitInterval ==
    (pc = "power_done" /\ ValidProportions /\ ValidAlpha /\ ValidSize)
        => (ret.k = "fin" /\ 0 <= ret.v /\ ret.v <= One)

\* C7 witness: a valid call has returned a power strictly inside (0, 1)
C7_Witness ==
    /\ pc = "power_done" /\ ValidProportions /\ ValidAlpha /\ ValidSize
    /\ ret.k = "fin" /\ 0 < ret.v /\ ret.v < One

\* C8: the plot branch changes none of se_null, p_crit, se_alt and beta, and
\* what power returns is the value lines 46-57 and 82 give for (p_null,
\* p_alt, n, alpha) alone, whether plot is True or False.
C8_PlotIsSeparable ==
    [][ /\ pc = "power_59" => UNCHANGED power_locals
        /\ pc' = "power_done" => ret' = PowerValue(p_null, p_alt, n, alpha)
      ]_vars

\* C8 witness: a call with plot = True has drawn its plot and returned
C8_Witness ==
    /\ pc = "power_done" /\ plot /\ low_bound.k = "fin" /\ high_bound.k = "fin"
    /\ ret.k = "fin"

\* C9: no sample size below the one experiment_size returned reaches the
\* requested power: a trial size n < n_star never gets a power above
\* 1 - beta (the margin Tol keeps the rounding of the model out of it).
C9_Minimal ==
    (pc = "power_done" /\ Fed /\ n.k = "int" /\ n_star.k = "cnt" /\ n.v < n_star.v
        /\ ValidProportions /\ ValidAlpha /\ ValidBeta)
        => ~(ret.k = "fin" /\ ret.v >= One - es_beta + Tol)

\* C10: for valid p_null < p_alt, alpha and beta, what experiment_size
\* returns is a whole number of at least 1.
C10_PositiveSize ==
    (pc = "es_done" /\ ValidProportions /\ ValidAlpha /\ ValidBeta)
        => (ret.k = "cnt" /\ ret.v >= 1)

=============================================================================
